---- MODULE Spec2Model ----
(***************************************************************************)
(* futures-join-all: src/src/main.rs.                                      *)
(*                                                                         *)
(* main() scans the command line, parses every positional argument as a   *)
(* u64 and, for each number num, runs                                      *)
(*     block_on(async { join_all((1..=num).map(|x| task(x))).await })      *)
(* and prints the results.  block_on drives the join_all future on the     *)
(* calling thread; join_all polls its elements in index order and yields   *)
(* their outputs in index order; task() prints, sleeps on a timer and      *)
(* prints again.  Time is a logical clock counting seconds since the       *)
(* current block_on call began.                                            *)
(***************************************************************************)
EXTENDS Integers, Sequences, FiniteSets, TLC

\* ---- bounds of the model -------------------------------------------------
MaxN == 2          \* most work a command line asks for (see Work): a run of MaxN tasks, or MaxN runs
MaxArgs == 2       \* longest command line (arguments after the program name)
MaxCores == 2      \* largest logical CPU core count of a machine the program runs on
MaxLag == 1        \* seconds that may pass, per run, while the executor has work to do

\* ---- program constants ---------------------------------------------------
SecsLow == 1       \* rng.gen_range(1, 11): inclusive low end
SecsHigh == 11     \* rng.gen_range(1, 11): exclusive high end

VARIABLES
    args,         \* args().skip(1): the command line, each argument a sequence of characters
    pc,           \* position of main
    argi,         \* number of arguments the scan loop / the parse closure has consumed
    a,            \* main's vector a: the positional arguments
    nums,         \* main's vector nums: the parsed numbers
    run,          \* index in nums of the current iteration of `for num in nums` (0: none yet)
    elems,        \* join_all's elements, one per input, in input order
    cursor,       \* element the current poll of join_all is at
    woken,        \* block_on's wake flag (set by a timer's waker)
    now,          \* logical clock: seconds since the current block_on call began
    lag,          \* seconds of `now` that passed while the executor had work to do
    results,      \* main's `results`, <<>> until block_on returns
    returned,     \* TRUE once block_on has returned in the current iteration
    stdout,       \* lines printed on standard output by the current iteration
    resultLines,  \* number of `results = ...` lines printed so far
    startedTotal, \* number of task invocations that have begun, over all iterations
    stderr,       \* lines printed on the error stream
    status        \* exit status of the process, -1 while it runs

vars == <<args, pc, argi, a, nums, run, elems, cursor, woken, now, lag,
          results, returned, stdout, resultLines, startedTotal, stderr, status>>

\* ---- command line --------------------------------------------------------
Digits == <<"0", "1", "2", "3", "4", "5", "6", "7", "8", "9">>

IsDigit(c) == \E d \in 1..10 : Digits[d] = c

DigitVal(c) == (CHOOSE d \in 1..10 : Digits[d] = c) - 1

\* decimal text of a natural number (how a shell user writes N)
RECURSIVE Decimal(_)
Decimal(n) == IF n < 10 THEN <<Digits[n + 1]>>
              ELSE Decimal(n \div 10) \o <<Digits[(n % 10) + 1]>>

ParseErr == -1

RECURSIVE ParseDigits(_, _)
ParseDigits(s, acc) ==
    IF s = <<>> THEN acc
    ELSE IF ~IsDigit(Head(s)) THEN ParseErr
    ELSE ParseDigits(Tail(s), acc * 10 + DigitVal(Head(s)))

\* str::parse::<u64>: ParseErr, or the value.  An optional leading "+", then
\* one or more decimal digits; a "-" is not a digit of an unsigned number.
ParseU64(s) ==
    IF s = <<>> THEN ParseErr
    ELSE LET digits == IF Head(s) = "+" THEN Tail(s) ELSE s
         IN  IF digits = <<>> THEN ParseErr ELSE ParseDigits(digits, 0)

HelpFlags == { <<"-", "h">>, <<"-", "-", "h", "e", "l", "p">> }

IsHelp(arg) == arg \in HelpFlags

Tokens == { Decimal(n) : n \in 0..MaxN }
          \cup { <<"+", "1">>, <<"-", "1">>, <<"a", "b", "c">>, <<>> }
          \cup HelpFlags

\* the runs and tasks a command line asks for: every numeric argument counts
\* for its run and for each task of the run after the first
RECURSIVE Work(_)
Work(list) ==
    IF list = <<>> THEN 0
    ELSE LET u == ParseU64(Head(list))
         IN  (IF u = ParseErr THEN 0 ELSE IF u < 1 THEN 1 ELSE u) + Work(Tail(list))

ArgLists == { list \in UNION { [1..len -> Tokens] : len \in 0..MaxArgs } :
              Work(list) <= MaxN }

UsageLine == <<"usage">>

ErrorLine(x) == <<"ERROR", x>>

\* ---- task and join_all ---------------------------------------------------
\* a range that includes its high end
GenRangeInclusive(low, high) == low..high

\* rng.gen_range(low, high): low <= value < high
GenRange(low, high) == low..(high - 1)

\* a task(n) future that has not been polled yet
NewTask(n) == [n |-> n, st |-> "new", secs |-> 0, when |-> 0, fired |-> FALSE,
               output |-> <<>>]

\* a join over the inputs in reverse
JoinAllReversed(num) == [k \in 1..num |-> NewTask(num + 1 - k)]

JoinAllOffByOne(num) == [k \in 1..(num - 1) |-> NewTask(k)]

\* join_all((1..=num).map(|x| task(x)))
JoinAll(num) == [k \in 1..num |-> NewTask(k)]

AllDone == \A k \in 1..Len(elems) : elems[k].st = "done"

Running == pc \in {"poll", "parked"}

\* the threads that poll the tasks: block_on runs the future on the calling thread
Workers == {"main"}

\* the tasks a thread is executing right now (polled, not suspended, not done)
Executing == { k \in 1..Len(elems) : elems[k].st = "started" }

\* the executor has nothing to do until a timer expires
Idle == /\ pc = "parked"
        /\ ~woken
        /\ \A k \in 1..Len(elems) : elems[k].st = "sleeping" => now < elems[k].when

Init ==
    /\ args \in ArgLists
    /\ pc = "scan"
    /\ argi = 0
    /\ a = <<>>
    /\ nums = <<>>
    /\ run = 0
    /\ elems = <<>>
    /\ cursor = 1
    /\ woken = FALSE
    /\ now = 0
    /\ lag = 0
    /\ results = <<>>
    /\ returned = FALSE
    /\ stdout = <<>>
    /\ resultLines = 0
    /\ startedTotal = 0
    /\ stderr = <<>>
    /\ status = -1

\* ---- main: arguments -----------------------------------------------------
\* a usage() that exits with status 1
usageExitOne ==
    /\ stderr' = Append(stderr, UsageLine)
    /\ status' = 1
    /\ pc' = "exited"

\* usage(): print the usage text on the error stream, exit(0)
usage ==
    /\ stderr' = Append(stderr, UsageLine)
    /\ status' = 0
    /\ pc' = "exited"

\* a scan that knows a help flag only as the first argument
ScanArgHelpFirstOnly ==
    /\ pc = "scan"
    /\ argi < Len(args)
    /\ LET arg == args[argi + 1]
       IN  IF IsHelp(arg) /\ argi = 0
           THEN usage /\ UNCHANGED <<argi, a>>
           ELSE /\ a' = Append(a, arg)
                /\ argi' = argi + 1
                /\ UNCHANGED <<pc, stderr, status>>
    /\ UNCHANGED <<args, nums, run, elems, cursor, woken, now, lag, results,
                   returned, stdout, resultLines, startedTotal>>

\* one iteration of `for arg in args().skip(1)`
ScanArg ==
    /\ pc = "scan"
    /\ argi < Len(args)
    /\ LET arg == args[argi + 1]
       IN  IF IsHelp(arg)
           THEN usage /\ UNCHANGED <<argi, a>>
           ELSE /\ a' = Append(a, arg)
                /\ argi' = argi + 1
                /\ UNCHANGED <<pc, stderr, status>>
    /\ UNCHANGED <<args, nums, run, elems, cursor, woken, now, lag, results,
                   returned, stdout, resultLines, startedTotal>>

\* `if a.len() < 1 { usage(); }` after the scan loop
CheckArgs ==
    /\ pc = "scan"
    /\ argi = Len(args)
    /\ IF Len(a) < 1
       THEN usage /\ UNCHANGED argi
       ELSE /\ pc' = "parse"
            /\ argi' = 0
            /\ UNCHANGED <<stderr, status>>
    /\ UNCHANGED <<args, a, nums, run, elems, cursor, woken, now, lag, results,
                   returned, stdout, resultLines, startedTotal>>

ParseArgSkipBad ==
    /\ pc = "parse"
    /\ argi < Len(a)
    /\ LET x == a[argi + 1]
           u == ParseU64(x)
       IN  /\ nums' = IF u # ParseErr THEN Append(nums, u) ELSE nums
           /\ argi' = argi + 1
           /\ pc' = IF argi + 1 = Len(a) THEN "loop" ELSE "parse"
           /\ UNCHANGED <<stderr, status>>
    /\ UNCHANGED <<args, a, run, elems, cursor, woken, now, lag, results,
                   returned, stdout, resultLines, startedTotal>>

\* the closure of `a.iter().map(...)` applied to the next element of a; after
\* the last element, nums is collected and the for loop begins
ParseArg ==
    /\ pc = "parse"
    /\ argi < Len(a)
    /\ LET x == a[argi + 1]
           u == ParseU64(x)
       IN  IF u # ParseErr
           THEN /\ nums' = Append(nums, u)
                /\ argi' = argi + 1
                /\ pc' = IF argi + 1 = Len(a) THEN "loop" ELSE "parse"
                /\ UNCHANGED <<stderr, status>>
           ELSE /\ stderr' = Append(stderr, ErrorLine(x))
                /\ status' = 1
                /\ pc' = "exited"
                /\ UNCHANGED <<nums, argi>>
    /\ UNCHANGED <<args, a, run, elems, cursor, woken, now, lag, results,
                   returned, stdout, resultLines, startedTotal>>

\* ---- main: one iteration of `for num in nums` ----------------------------
\* the next num: build the join_all future and enter block_on
BlockOn ==
    /\ pc = "loop"
    /\ run < Len(nums)
    /\ run' = run + 1
    /\ elems' = JoinAll(nums[run + 1])
    /\ cursor' = 1
    /\ woken' = FALSE
    /\ now' = 0
    /\ lag' = 0
    /\ results' = <<>>
    /\ returned' = FALSE
    /\ stdout' = <<>>
    /\ pc' = "poll"
    /\ UNCHANGED <<args, argi, a, nums, resultLines, startedTotal, stderr, status>>

\* task(n), first poll, lines 74-76: draw secs, print the start line
TaskStart ==
    /\ pc = "poll"
    /\ cursor <= Len(elems)
    /\ elems[cursor].st = "new"
    /\ \E secs \in GenRange(SecsLow, SecsHigh) :
          /\ elems' = [elems EXCEPT ![cursor].st = "started", ![cursor].secs = secs]
          /\ stdout' = Append(stdout, <<"sleeping", elems[cursor].n, secs>>)
    /\ startedTotal' = startedTotal + 1
    /\ UNCHANGED <<args, pc, argi, a, nums, run, cursor, woken, now, lag, results,
                   returned, resultLines, stderr, status>>

\* a sleep that blocks the polling thread: the task finishes within its first poll
TaskSleepBlocking ==
    /\ pc = "poll"
    /\ cursor <= Len(elems)
    /\ elems[cursor].st = "started"
    /\ now' = now + elems[cursor].secs
    /\ elems' = [elems EXCEPT ![cursor].st = "done",
                              ![cursor].when = now + elems[cursor].secs,
                              ![cursor].output = <<elems[cursor].n, elems[cursor].secs>>]
    /\ stdout' = Append(stdout, <<"slept", elems[cursor].n, elems[cursor].secs>>)
    /\ cursor' = cursor + 1
    /\ UNCHANGED <<args, pc, argi, a, nums, run, woken, lag, results,
                   returned, resultLines, startedTotal, stderr, status>>

\* the latest expiry among the timers set so far in the run
RECURSIVE LastWhen(_)
LastWhen(k) == IF k = 0 THEN 0
               ELSE IF elems[k].when > LastWhen(k - 1) THEN elems[k].when ELSE LastWhen(k - 1)

\* a sleep that begins only when the sleeps set before it are over
TaskSleepSerial ==
    /\ pc = "poll"
    /\ cursor <= Len(elems)
    /\ elems[cursor].st = "started"
    /\ elems' = [elems EXCEPT ![cursor].st = "sleeping",
                              ![cursor].when = (IF LastWhen(Len(elems)) > now
                                                THEN LastWhen(Len(elems)) ELSE now)
                                               + elems[cursor].secs]
    /\ cursor' = cursor + 1
    /\ UNCHANGED <<args, pc, argi, a, nums, run, woken, now, lag, results,
                   returned, stdout, resultLines, startedTotal, stderr, status>>

\* task(n), first poll, line 77: sleep(Duration::from_secs(secs)).await sets a
\* timer secs from now and returns Pending (secs >= 1)
TaskSleep ==
    /\ pc = "poll"
    /\ cursor <= Len(elems)
    /\ elems[cursor].st = "started"
    /\ elems' = [elems EXCEPT ![cursor].st = "sleeping",
                              ![cursor].when = now + elems[cursor].secs]
    /\ cursor' = cursor + 1
    /\ UNCHANGED <<args, pc, argi, a, nums, run, woken, now, lag, results,
                   returned, stdout, resultLines, startedTotal, stderr, status>>

\* a task whose sleep is over at its second poll, expired or not
TaskFinishEarly ==
    /\ pc = "poll"
    /\ cursor <= Len(elems)
    /\ elems[cursor].st = "sleeping"
    /\ stdout' = Append(stdout, <<"slept", elems[cursor].n, elems[cursor].secs>>)
    /\ elems' = [elems EXCEPT ![cursor].st = "done",
                              ![cursor].output = <<elems[cursor].n, elems[cursor].secs>>]
    /\ cursor' = cursor + 1
    /\ UNCHANGED <<args, pc, argi, a, nums, run, woken, now, lag, results,
                   returned, resultLines, startedTotal, stderr, status>>

\* a join that pushes each output into the first free slot
TaskFinishPush ==
    /\ pc = "poll"
    /\ cursor <= Len(elems)
    /\ elems[cursor].st = "sleeping"
    /\ now >= elems[cursor].when
    /\ stdout' = Append(stdout, <<"slept", elems[cursor].n, elems[cursor].secs>>)
    /\ LET free == CHOOSE k \in 1..Len(elems) :
                       /\ elems[k].output = <<>>
                       /\ \A j \in 1..(k - 1) : elems[j].output # <<>>
       IN  elems' = [elems EXCEPT ![cursor].st = "done",
                                  ![free].output = <<elems[cursor].n, elems[cursor].secs>>]
    /\ cursor' = cursor + 1
    /\ UNCHANGED <<args, pc, argi, a, nums, run, woken, now, lag, results,
                   returned, resultLines, startedTotal, stderr, status>>

\* a task that returns the time on the clock instead of the duration it drew
TaskFinishElapsed ==
    /\ pc = "poll"
    /\ cursor <= Len(elems)
    /\ elems[cursor].st = "sleeping"
    /\ now >= elems[cursor].when
    /\ stdout' = Append(stdout, <<"slept", elems[cursor].n, elems[cursor].secs>>)
    /\ elems' = [elems EXCEPT ![cursor].st = "done",
                              ![cursor].output = <<elems[cursor].n, now>>]
    /\ cursor' = cursor + 1
    /\ UNCHANGED <<args, pc, argi, a, nums, run, woken, now, lag, results,
                   returned, resultLines, startedTotal, stderr, status>>

\* task(n), a later poll with the timer expired, lines 77-81: print the finish
\* line and return (n, secs); join_all keeps the output in the element
TaskFinish ==
    /\ pc = "poll"
    /\ cursor <= Len(elems)
    /\ elems[cursor].st = "sleeping"
    /\ now >= elems[cursor].when
    /\ stdout' = Append(stdout, <<"slept", elems[cursor].n, elems[cursor].secs>>)
    /\ elems' = [elems EXCEPT ![cursor].st = "done",
                              ![cursor].output = <<elems[cursor].n, elems[cursor].secs>>]
    /\ cursor' = cursor + 1
    /\ UNCHANGED <<args, pc, argi, a, nums, run, woken, now, lag, results,
                   returned, resultLines, startedTotal, stderr, status>>

\* task(n), a later poll with the timer still running: Pending again
TaskPending ==
    /\ pc = "poll"
    /\ cursor <= Len(elems)
    /\ elems[cursor].st = "sleeping"
    /\ now < elems[cursor].when
    /\ cursor' = cursor + 1
    /\ UNCHANGED <<args, pc, argi, a, nums, run, elems, woken, now, lag, results,
                   returned, stdout, resultLines, startedTotal, stderr, status>>

\* a join that polls an element that is done: the task runs again from its start
SkipDoneRerun ==
    /\ pc = "poll"
    /\ cursor <= Len(elems)
    /\ elems[cursor].st = "done"
    /\ elems' = [elems EXCEPT ![cursor] = NewTask(elems[cursor].n)]
    /\ cursor' = cursor + 1
    /\ UNCHANGED <<args, pc, argi, a, nums, run, woken, now, lag, results,
                   returned, stdout, resultLines, startedTotal, stderr, status>>

\* a join that polls an element that is done: its last line is printed again
SkipDoneRepoll ==
    /\ pc = "poll"
    /\ cursor <= Len(elems)
    /\ elems[cursor].st = "done"
    /\ stdout' = Append(stdout, <<"slept", elems[cursor].n, elems[cursor].secs>>)
    /\ cursor' = cursor + 1
    /\ UNCHANGED <<args, pc, argi, a, nums, run, elems, woken, now, lag, results,
                   returned, resultLines, startedTotal, stderr, status>>

\* join_all does not poll an element that is done
SkipDone ==
    /\ pc = "poll"
    /\ cursor <= Len(elems)
    /\ elems[cursor].st = "done"
    /\ cursor' = cursor + 1
    /\ UNCHANGED <<args, pc, argi, a, nums, run, elems, woken, now, lag, results,
                   returned, stdout, resultLines, startedTotal, stderr, status>>

\* the finish lines printed so far, as (n, secs) pairs in the order of completion
Finished ==
    LET slept == SelectSeq(stdout, LAMBDA line : line[1] = "slept")
    IN  [k \in 1..Len(slept) |-> <<slept[k][2], slept[k][3]>>]

\* a join that yields the outputs in the order of completion
PollReadyCompletionOrder ==
    /\ pc = "poll"
    /\ cursor > Len(elems)
    /\ AllDone
    /\ results' = Finished
    /\ returned' = TRUE
    /\ pc' = "print"
    /\ UNCHANGED <<args, argi, a, nums, run, elems, cursor, woken, now, lag,
                   stdout, resultLines, startedTotal, stderr, status>>

\* a join that is ready as soon as one element is done
PollReadyAny ==
    /\ pc = "poll"
    /\ cursor > Len(elems)
    /\ \/ AllDone
       \/ \E k \in 1..Len(elems) : elems[k].st = "done"
    /\ results' = [k \in 1..Len(elems) |-> elems[k].output]
    /\ returned' = TRUE
    /\ pc' = "print"
    /\ UNCHANGED <<args, argi, a, nums, run, elems, cursor, woken, now, lag,
                   stdout, resultLines, startedTotal, stderr, status>>

\* end of a poll of join_all with every element done: Ready with the outputs
\* in element (input) order; block_on returns them to main
PollReady ==
    /\ pc = "poll"
    /\ cursor > Len(elems)
    /\ AllDone
    /\ results' = [k \in 1..Len(elems) |-> elems[k].output]
    /\ returned' = TRUE
    /\ pc' = "print"
    /\ UNCHANGED <<args, argi, a, nums, run, elems, cursor, woken, now, lag,
                   stdout, resultLines, startedTotal, stderr, status>>

\* end of a poll of join_all with an element still pending: Pending; block_on
\* parks the thread until it is woken
PollPending ==
    /\ pc = "poll"
    /\ cursor > Len(elems)
    /\ ~AllDone
    /\ pc' = "parked"
    /\ UNCHANGED <<args, argi, a, nums, run, elems, cursor, woken, now, lag,
                   results, returned, stdout, resultLines, startedTotal, stderr, status>>

\* block_on finds the wake flag set, clears it and polls join_all again
Unpark ==
    /\ pc = "parked"
    /\ woken
    /\ woken' = FALSE
    /\ cursor' = 1
    /\ pc' = "poll"
    /\ UNCHANGED <<args, argi, a, nums, run, elems, now, lag, results,
                   returned, stdout, resultLines, startedTotal, stderr, status>>

\* the sleeping tasks whose timer has expired and has not woken block_on yet
Expired == { k \in 1..Len(elems) :
             elems[k].st = "sleeping" /\ ~elems[k].fired /\ now >= elems[k].when }

\* a timer that expires without waking block_on
TimerFireNoWake ==
    /\ Running
    /\ Expired # {}
    /\ elems' = [k \in 1..Len(elems) |->
                  IF k \in Expired THEN [elems[k] EXCEPT !.fired = TRUE] ELSE elems[k]]
    /\ UNCHANGED <<args, pc, argi, a, nums, run, cursor, woken, now, lag, results,
                   returned, stdout, resultLines, startedTotal, stderr, status>>

\* the timer thread finds expired timers: their wakers wake block_on
TimerFire ==
    /\ Running
    /\ Expired # {}
    /\ elems' = [k \in 1..Len(elems) |->
                  IF k \in Expired THEN [elems[k] EXCEPT !.fired = TRUE] ELSE elems[k]]
    /\ woken' = TRUE
    /\ UNCHANGED <<args, pc, argi, a, nums, run, cursor, now, lag, results,
                   returned, stdout, resultLines, startedTotal, stderr, status>>

\* a second passes.  While the executor is idle time always passes; while it
\* has work to do at most MaxLag seconds pass per run (scheduling overhead)
Tick ==
    /\ Running
    /\ Idle \/ lag < MaxLag
    /\ now' = now + 1
    /\ lag' = IF Idle THEN lag ELSE lag + 1
    /\ UNCHANGED <<args, pc, argi, a, nums, run, elems, cursor, woken, results,
                   returned, stdout, resultLines, startedTotal, stderr, status>>

PrintResultsUnlessEmpty ==
    /\ pc = "print"
    /\ stdout' = IF results = <<>> THEN stdout ELSE Append(stdout, <<"results", results>>)
    /\ resultLines' = IF results = <<>> THEN resultLines ELSE resultLines + 1
    /\ pc' = "loop"
    /\ UNCHANGED <<args, argi, a, nums, run, elems, cursor, woken, now, lag,
                   results, returned, startedTotal, stderr, status>>

\* println!("\nresults = {:?}\n", results), then the next iteration
PrintResults ==
    /\ pc = "print"
    /\ stdout' = Append(stdout, <<"results", results>>)
    /\ resultLines' = resultLines + 1
    /\ pc' = "loop"
    /\ UNCHANGED <<args, argi, a, nums, run, elems, cursor, woken, now, lag,
                   results, returned, startedTotal, stderr, status>>

\* the for loop is over: main returns and the process exits with status 0
MainReturn ==
    /\ pc = "loop"
    /\ run = Len(nums)
    /\ status' = 0
    /\ pc' = "exited"
    /\ UNCHANGED <<args, argi, a, nums, run, elems, cursor, woken, now, lag,
                   results, returned, stdout, resultLines, startedTotal, stderr>>

Next ==
    \/ ScanArg
    \/ CheckArgs
    \/ ParseArg
    \/ BlockOn
    \/ TaskStart
    \/ TaskSleep
    \/ TaskFinish
    \/ TaskPending
    \/ SkipDone
    \/ PollReady
    \/ PollPending
    \/ Unpark
    \/ TimerFire
    \/ Tick
    \/ PrintResults
    \/ MainReturn

Spec == Init /\ [][Next]_vars

\* the steps of the thread that runs main
MainStep ==
    \/ ScanArg
    \/ CheckArgs
    \/ ParseArg
    \/ BlockOn
    \/ TaskStart
    \/ TaskSleep
    \/ TaskFinish
    \/ TaskPending
    \/ SkipDone
    \/ PollReady
    \/ PollPending
    \/ Unpark
    \/ PrintResults
    \/ MainReturn

\* fair scheduling: the main thread and the timer thread keep running, time passes
FairSpec == Spec /\ WF_vars(MainStep) /\ WF_vars(TimerFire) /\ WF_vars(Tick)

TypeOK ==
    /\ pc \in {"scan", "parse", "loop", "poll", "parked", "print", "exited"}
    /\ status \in {-1, 0, 1}
    /\ lag \in 0..MaxLag

\* ---- helpers of the properties -------------------------------------------
\* N of the current iteration
N == nums[run]

\* the lines of a kind ("sleeping", "slept", "results") printed by the current iteration
Lines(kind) == SelectSeq(stdout, LAMBDA line : line[1] = kind)

\* the lines of a kind printed for task n
LinesOf(kind, n) == SelectSeq(stdout, LAMBDA line : line[1] = kind /\ line[2] = n)

RECURSIVE MaxSecs(_)
MaxSecs(k) == IF k = 0 THEN 0
              ELSE IF elems[k].secs > MaxSecs(k - 1) THEN elems[k].secs ELSE MaxSecs(k - 1)

RECURSIVE SumSecs(_)
SumSecs(k) == IF k = 0 THEN 0 ELSE elems[k].secs + SumSecs(k - 1)

\* ---- C1 ------------------------------------------------------------------
\* C1: whatever the delays and the completion order, the k-th element of the
\* result sequence of a run carries the k-th input, k, both in the value
\* block_on returns and in the results line that is printed.
C1_OrderInvariance ==
    /\ returned => \A k \in 1..Len(results) : results[k][1] = k
    /\ \A j \in 1..Len(Lines("results")) :
          \A k \in 1..Len(Lines("results")[j][2]) : Lines("results")[j][2][k][1] = k

\* a run of two tasks returned although task 2 finished before task 1
C1_Witness ==
    /\ returned
    /\ Len(results) = 2
    /\ Len(Finished) = 2
    /\ Finished[1][1] = 2
    /\ Finished[2][1] = 1

\* ---- C2 ------------------------------------------------------------------
\* C2: the result sequence of a run with argument N has exactly N elements,
\* and is empty for N = 0.
C2_Cardinality ==
    returned => /\ Len(results) = N
                /\ (N = 0 => results = <<>>)

\* a run with N = 2 returned two results
C2_Witness ==
    /\ returned
    /\ N = 2
    /\ Len(results) = 2
    /\ results[1] # results[2]

\* ---- C3 ------------------------------------------------------------------
\* C3: block_on has returned, or the results line is printed, only when every
\* one of the N tasks of the run is done; the sequence delivered is complete.
C3_ResultsAfterAllFinished ==
    (returned \/ Len(Lines("results")) > 0) =>
        /\ Len(elems) = N
        /\ \A k \in 1..N : elems[k].st = "done"
        /\ Len(Lines("slept")) = N
        /\ Len(results) = N
        /\ \A k \in 1..N : results[k] # <<>>
        /\ \A j \in 1..Len(Lines("results")) : Lines("results")[j][2] = results

\* the results line of a run of two tasks is printed
C3_Witness ==
    /\ Len(Lines("results")) = 1
    /\ N = 2
    /\ pc = "loop"

\* ---- C6 ------------------------------------------------------------------
\* C6: once any task of a run has printed its finish line, every task of the
\* run has printed its start line: no task waits for another task's sleep.
C6_AllStartBeforeAnyFinish ==
    /\ Len(Lines("slept")) > 0 => Len(Lines("sleeping")) = N
    /\ (\E k \in 1..Len(elems) : elems[k].st = "done")
          => \A k \in 1..Len(elems) : elems[k].st \in {"sleeping", "done"}

\* task 2 has finished while task 1, started before it, still sleeps
C6_Witness ==
    /\ Running
    /\ Len(elems) = 2
    /\ elems[1].st = "sleeping"
    /\ elems[2].st = "done"

\* ---- C7 ------------------------------------------------------------------
\* C7: when block_on returns, the clock shows the largest duration drawn in
\* the run plus at most the overhead (lag), whatever N is.
C7_ElapsedIsMax ==
    returned => /\ now >= MaxSecs(Len(elems))
                /\ now <= MaxSecs(Len(elems)) + lag

\* a run of two tasks returned before the sum of their durations had passed
C7_Witness ==
    /\ returned
    /\ Len(elems) = 2
    /\ elems[1].secs > 1
    /\ elems[2].secs > 1
    /\ now < SumSecs(2)

\* ---- C8 ------------------------------------------------------------------
\* C8: a task with input n draws a duration in 1..10, announces it in its one
\* start line, does not finish before it has passed, reports it in its finish
\* line, and its result is (n, duration).
C8_TaskContract ==
    \A k \in 1..Len(elems) :
        LET e == elems[k]
        IN  /\ e.n = k
            /\ e.st # "new" => /\ e.secs \in 1..10
                               /\ LinesOf("sleeping", e.n) = <<<<"sleeping", e.n, e.secs>>>>
            /\ e.st \in {"sleeping", "done"} => e.when >= e.secs
            /\ e.st = "done" => /\ now >= e.when
                                /\ LinesOf("slept", e.n) = <<<<"slept", e.n, e.secs>>>>
                                /\ e.output = <<e.n, e.secs>>
            /\ e.st # "done" => LinesOf("slept", e.n) = <<>>
            /\ returned => results[k] = <<e.n, e.secs>>

\* a run returned in which one task drew the least and one the largest duration
C8_Witness ==
    /\ returned
    /\ Len(results) = 2
    /\ results[1] = <<1, 10>>
    /\ results[2] = <<2, 1>>

\* ---- C4 ------------------------------------------------------------------
\* C4: under fair scheduling every run that has begun, whatever its N, leads
\* to block_on returning the ordered results of all N tasks, every task done.
C4_RunCompletes ==
    Running ~> (/\ returned
                /\ Len(results) = N
                /\ \A k \in 1..N : elems[k].st = "done" /\ results[k] = elems[k].output
                /\ \A k \in 1..N : results[k][1] = k)

\* a run with more tasks than threads polling them has returned
C4_Witness ==
    /\ returned
    /\ N > Cardinality(Workers)
    /\ Len(results) = N
    /\ pc = "print"

\* ---- C5 ------------------------------------------------------------------
\* C5: on a machine with c logical cores the tasks are executed by a pool of
\* exactly c workers, never more tasks being executed than there are workers.
C5_PoolOfCoreCount ==
    Executing # {} =>
        \A c \in 1..MaxCores : /\ Cardinality(Workers) = c
                               /\ Cardinality(Executing) <= c

\* ---- C9 ------------------------------------------------------------------
\* C9: the runs follow the positional arguments in order; while run r is in
\* progress exactly r - 1 results lines are printed, after it exactly r; a
\* command line of valid numbers ends with one results line per argument.
C9_RunsInSequence ==
    /\ run >= 1 => /\ N = ParseU64(a[run])
                   /\ Len(elems) = N
    /\ pc \in {"poll", "parked", "print"} => resultLines = run - 1
    /\ pc = "loop" => resultLines = run
    /\ run = 0 => startedTotal = 0
    /\ pc = "exited" /\ args # <<>> /\ (\A i \in 1..Len(args) :
                                          ~IsHelp(args[i]) /\ ParseU64(args[i]) # ParseErr)
          => /\ status = 0
             /\ resultLines = Len(args)
             /\ run = Len(args)

\* a command line of two numbers has ended with two results lines
C9_Witness ==
    /\ pc = "exited"
    /\ nums = <<1, 1>>
    /\ resultLines = 2
    /\ startedTotal = 2

\* ---- C10 -----------------------------------------------------------------
HasHelp == \E i \in 1..Len(args) : IsHelp(args[i])

\* the positions of the positional arguments that are no u64
BadArgs == { i \in 1..Len(args) : ~IsHelp(args[i]) /\ ParseU64(args[i]) = ParseErr }

FirstBad == args[CHOOSE i \in BadArgs : \A j \in BadArgs : i <= j]

\* C10 as claimed: whenever some positional argument is no valid number, no
\* task ever starts and the process ends with status 1 and an error line
\* naming an offending argument.
C10_Original ==
    BadArgs # {} =>
        /\ startedTotal = 0
        /\ pc = "exited" => /\ status = 1
                            /\ \E i \in BadArgs : stderr = <<ErrorLine(args[i])>>

\* C10: whenever the command line holds no help flag and some positional
\* argument is no valid number, no task ever starts, nothing is printed on
\* standard output, and the process ends with status 1 and one error line
\* naming the first such argument.
C10_ParseFailure ==
    (~HasHelp /\ BadArgs # {}) =>
        /\ startedTotal = 0
        /\ resultLines = 0
        /\ stdout = <<>>
        /\ pc = "exited" => /\ status = 1
                            /\ stderr = <<ErrorLine(FirstBad)>>

\* the process has exited with status 1 on a bad argument that follows a valid number
C10_Witness ==
    /\ pc = "exited"
    /\ status = 1
    /\ Len(args) = 2
    /\ ParseU64(args[1]) = 1
    /\ ParseU64(args[2]) = ParseErr
    /\ stderr = <<ErrorLine(args[2])>>

\* ---- C11 -----------------------------------------------------------------
\* the command line holds no positional argument
NoPositional == \A i \in 1..Len(args) : IsHelp(args[i])

\* C11: whenever the command line holds a help flag at any position, or no
\* positional argument, main never gets past the scan, no task starts, and
\* the process ends with status 0 and the usage text on the error stream.
C11_HelpOrNoArgs ==
    (HasHelp \/ NoPositional) =>
        /\ pc \in {"scan", "exited"}
        /\ startedTotal = 0
        /\ resultLines = 0
        /\ stdout = <<>>
        /\ nums = <<>>
        /\ pc = "exited" => /\ status = 0
                            /\ stderr = <<UsageLine>>

\* the process has exited on a help flag that follows a positional argument
C11_Witness ==
    /\ pc = "exited"
    /\ Len(args) = 2
    /\ ~IsHelp(args[1])
    /\ IsHelp(args[2])
    /\ status = 0

\* ---- C12 -----------------------------------------------------------------
\* C12 as claimed: a command line without help flag whose positional
\* arguments are bad or missing ends with a non-zero status and a message on
\* the error stream.
C12_Original ==
    (pc = "exited" /\ ~HasHelp /\ (BadArgs # {} \/ NoPositional)) =>
        /\ status # 0
        /\ stderr # <<>>

\* C12: without help flag, a bad positional argument ends the process with
\* status 1 after an error line; a command line with no positional argument
\* ends it with status 0 after the usage text.
C12_UsageErrors ==
    (pc = "exited" /\ ~HasHelp) =>
        /\ BadArgs # {} => (status = 1 /\ Len(stderr) = 1 /\ stderr[1][1] = "ERROR")
        /\ NoPositional => (status = 0 /\ stderr = <<UsageLine>>)
        /\ (BadArgs = {} /\ ~NoPositional) => (status = 0 /\ stderr = <<>>)

\* the process has exited on an empty command line
C12_Witness ==
    /\ pc = "exited"
    /\ args = <<>>
    /\ stderr = <<UsageLine>>

\* ---- C13 -----------------------------------------------------------------
\* C13: the results of a run are determined by N and by each task's own
\* duration: whatever the other tasks drew, the clock, the overhead and the
\* order of completion, element i is (i, the duration task i drew), in the
\* value returned and in the line printed; so two runs with the same N agree
\* on the inputs and differ at i only where task i drew differently.
C13_OwnDurationOnly ==
    /\ returned => results = [i \in 1..N |-> <<i, elems[i].secs>>]
    /\ \A j \in 1..Len(Lines("results")) :
          Lines("results")[j][2] = [i \in 1..N |-> <<i, elems[i].secs>>]

\* a run of two tasks returned after overhead, task 2 having finished first
\* at a time that is not the duration task 1 drew
C13_Witness ==
    /\ returned
    /\ N = 2
    /\ lag > 0
    /\ Finished[1][1] = 2
    /\ now # elems[1].secs
    /\ now # elems[2].secs

\* ---- C14 -----------------------------------------------------------------
\* position in stdout of the line of a kind printed for task n
Pos(kind, n) == CHOOSE p \in 1..Len(stdout) : stdout[p][1] = kind /\ stdout[p][2] = n

RECURSIVE SumNums(_)
SumNums(k) == IF k = 0 THEN 0 ELSE nums[k] + SumNums(k - 1)

\* C14: in a run with argument N, task n of 1..N has one start line once it
\* is polled and one finish line, after the start line, once it is done; no
\* other task line is printed; when block_on returns every task has both
\* lines and one result; task() has been called once per input of every run;
\* with N = 0 no task line is printed; a process that ends after its runs
\* exits with status 0.
C14_OncePerInput ==
    /\ run >= 1 =>
          /\ \A n \in 1..N :
                /\ Len(LinesOf("sleeping", n)) = (IF elems[n].st = "new" THEN 0 ELSE 1)
                /\ Len(LinesOf("slept", n)) = (IF elems[n].st = "done" THEN 1 ELSE 0)
                /\ elems[n].st = "done" => Pos("sleeping", n) < Pos("slept", n)
                /\ (elems[n].output # <<>>) = (elems[n].st = "done")
          /\ Len(Lines("sleeping")) + Len(Lines("slept")) + Len(Lines("results")) = Len(stdout)
          /\ Len(Lines("sleeping")) <= N
          /\ Len(Lines("slept")) <= N
          /\ Len(Lines("results")) <= 1
          /\ returned => /\ Len(Lines("sleeping")) = N
                         /\ Len(Lines("slept")) = N
                         /\ Len(results) = N
                         /\ startedTotal = SumNums(run)
    /\ (pc = "exited" /\ run >= 1) => /\ status = 0
                                      /\ run = Len(nums)
                                      /\ startedTotal = SumNums(Len(nums))

\* the process has exited after a run with N = 0, which printed its results
\* line only, and a run with N = 1
C14_Witness ==
    /\ pc = "exited"
    /\ nums = <<0, 1>>
    /\ resultLines = 2
    /\ startedTotal = 1
    /\ Len(stdout) = 3

\* ---- C15 -----------------------------------------------------------------
\* number of tasks of the current run that are done
Completed == Cardinality({ k \in 1..Len(elems) : elems[k].st = "done" })

\* phase of the current driver invocation: Idle before the first block_on
\* call; while block_on runs, Collected when all N tasks are done,
\* Dispatching while none is, Awaiting in between; Done once block_on has
\* returned (the Done of one invocation is the Idle of the next)
Phase ==
    IF run = 0 THEN "Idle"
    ELSE IF Running
         THEN IF Completed = Len(elems) THEN "Collected"
              ELSE IF Completed = 0 THEN "Dispatching"
              ELSE "Awaiting"
    ELSE "Done"

Rank(phase) ==
    CASE phase = "Idle" -> 0
      [] phase = "Dispatching" -> 1
      [] phase = "Awaiting" -> 2
      [] phase = "Collected" -> 3
      [] phase = "Done" -> 4

\* C15 as claimed: every invocation begins in Dispatching and every step
\* stays in the phase or moves to the next one; the count of completed tasks
\* never decreases.
C15_Original ==
    [][ /\ run' # run => (Phase \in {"Idle", "Done"} /\ Phase' = "Dispatching")
        /\ run' = run => /\ Rank(Phase') \in {Rank(Phase), Rank(Phase) + 1}
                         /\ Completed' >= Completed ]_vars

\* C15: an invocation begins in Dispatching, or in Collected when N = 0;
\* every step stays in the phase or moves to the next one, except that with
\* N = 1 Dispatching is followed by Collected (no state has
\* 0 < completed < N); the driver never moves back, a task that is done
\* stays done with its output, and the count of completed tasks never
\* decreases.
C15_PhaseOrder ==
    [][ /\ run' # run => /\ Phase \in {"Idle", "Done"}
                         /\ Phase' = IF nums[run'] = 0 THEN "Collected" ELSE "Dispatching"
        /\ run' = run => /\ Rank(Phase') >= Rank(Phase)
                         /\ \/ Rank(Phase') <= Rank(Phase) + 1
                            \/ Phase = "Dispatching" /\ Phase' = "Collected" /\ N = 1
                         /\ (Phase' = "Collected" /\ Phase # "Collected" /\ N >= 2)
                               => Phase = "Awaiting"
                         /\ Completed' >= Completed
                         /\ \A k \in 1..Len(elems) :
                               elems[k].st = "done" =>
                                   /\ elems'[k].st = "done"
                                   /\ elems'[k].output = elems[k].output ]_vars

\* a run of two tasks is in Awaiting: one task done, one not
C15_Witness ==
    /\ Phase = "Awaiting"
    /\ N = 2
    /\ Completed = 1

\* ---- C16 -----------------------------------------------------------------
\* C16: within a run, a slot of the result collection that is written keeps
\* its value; a slot k is written only by the step in which task k, the
\* element being polled, finishes, with the output of task k, and that step
\* writes no other slot; when block_on returns every slot is written.
C16_SlotWrittenOnce ==
    /\ [](returned => \A k \in 1..Len(elems) : elems[k].output # <<>>)
    /\ [][ run' = run =>
             \A k \in 1..Len(elems) :
                /\ elems[k].output # <<>> => elems'[k].output = elems[k].output
                /\ (elems[k].output = <<>> /\ elems'[k].output # <<>>) =>
                      /\ cursor = k
                      /\ elems[k].n = k
                      /\ elems[k].st = "sleeping"
                      /\ elems'[k].st = "done"
                      /\ elems'[k].output = <<k, elems[k].secs>>
                      /\ \A j \in 1..Len(elems) :
                            j # k => elems'[j].output = elems[j].output ]_vars

\* slot 2 is written while slot 1 is still empty
C16_Witness ==
    /\ Running
    /\ Len(elems) = 2
    /\ elems[1].output = <<>>
    /\ elems[2].output # <<>>

\* ---- C17 -----------------------------------------------------------------
\* C17: the start lines of a run are printed in input order: the p-th start
\* line is that of task p, and a task has started only if every task before
\* it has.
C17_StartInInputOrder ==
    /\ \A p \in 1..Len(Lines("sleeping")) : Lines("sleeping")[p][2] = p
    /\ \A i \in 1..Len(elems) : \A j \in 1..Len(elems) :
          (i < j /\ elems[j].st # "new") => /\ elems[i].st # "new"
                                            /\ elems[i].n < elems[j].n
                                            /\ Pos("sleeping", elems[i].n)
                                                  < Pos("sleeping", elems[j].n)

\* both tasks of a run have started, task 2 with the shorter sleep, after a
\* second passed between the two starts
C17_Witness ==
    /\ Running
    /\ Len(elems) = 2
    /\ elems[1].st = "sleeping"
    /\ elems[2].st = "sleeping"
    /\ elems[2].secs < elems[1].secs
    /\ elems[2].when - elems[2].secs > elems[1].when - elems[1].secs

\* ---- C18 -----------------------------------------------------------------
\* task i has printed its finish line, and before task j printed its own if it has
FinishedBefore(i, j) ==
    /\ elems[i].st = "done"
    /\ elems[j].st = "done" => Pos("slept", i) < Pos("slept", j)

\* C18 as claimed: a task that is done has finished after every task that
\* drew a strictly shorter duration.
C18_Original ==
    \A i \in 1..Len(elems) : \A j \in 1..Len(elems) :
        (/\ elems[i].st # "new"
         /\ elems[j].st = "done"
         /\ elems[i].secs < elems[j].secs) => FinishedBefore(i, j)

\* C18: a task that is done has finished after every task whose duration is
\* shorter than its own by more than the overhead (lag) of the run so far.
C18_CompletionOrder ==
    \A i \in 1..Len(elems) : \A j \in 1..Len(elems) :
        (/\ elems[i].st # "new"
         /\ elems[j].st = "done"
         /\ elems[i].secs + lag < elems[j].secs) => FinishedBefore(i, j)

\* after a second of overhead, task 2 has finished before task 1, which drew
\* a duration longer by more than that second
C18_Witness ==
    /\ Running
    /\ Len(elems) = 2
    /\ lag > 0
    /\ elems[2].secs + lag < elems[1].secs
    /\ elems[1].st = "done"
    /\ Finished[1][1] = 2
====
